---- MODULE Spec2Model ----
(***************************************************************************)
(* A model of two lowering passes of the compiler:                         *)
(*   - transform.LowerInterrupts (src/unnamed/part_001), a whole-module    *)
(*     pass, modelled as one run over a module chosen in Init;             *)
(*   - the channel lowering of package compiler (src/unnamed/part_000):    *)
(*     emitSelect, getChanSelectResult and the simple channel operations,  *)
(*     modelled as calls on one function-compilation frame.                *)
(* SpecInterrupts runs the first, SpecChan the second.                     *)
(***************************************************************************)
EXTENDS Integers, Sequences, FiniteSets, TLC

VARIABLES
    \* ---- the LLVM module LowerInterrupts works on
    registerUses,       \* uses of runtime/interrupt.Register, in use-list order
    handleGlobals,      \* globals of type runtime/interrupt.handle, in module order
    useUses,            \* uses of runtime/interrupt.use, in use-list order
    functions,          \* named functions of the module: name -> function
    dispatcherHasUses,  \* runtime.callInterruptHandler has uses
    dispatcher,         \* the function runtime.callInterruptHandler
    \* ---- the locals of LowerInterrupts
    handlerNames,           \* map[int64]string
    hasSoftwareVectoring,
    softwareVector,         \* map[int64]llvm.Value (the function's name)
    handlers,               \* the collected slice of handle globals (indices)
    errs,                   \* the error list being returned
    pc, idx,                \* the loop the pass is in, and its cursor
    synthesized,            \* history: <<handle index, function name>> per body created
    \* ---- one function-compilation frame of the channel lowering
    selectRecvBuf,      \* frame.selectRecvBuf: nil, or *ssa.Select -> recvbuf
    emitted,            \* the instructions the latest call gave the builder
    lastCall,           \* the latest lowering call and its argument
    ret,                \* what the latest call returned
    lowered,            \* the selects emitSelect has been called on
    recorded,           \* history: the recvbuf of each select, as lowered
    cpc                 \* "idle", "ready", or "fault" once the builder faulted

ivars == <<registerUses, handleGlobals, useUses, functions, dispatcherHasUses,
           dispatcher, handlerNames, hasSoftwareVectoring, softwareVector,
           handlers, errs, pc, idx, synthesized>>

cvars == <<selectRecvBuf, emitted, lastCall, ret, lowered, recorded, cpc>>

vars == <<ivars, cvars>>

----------------------------------------------------------------------------
(* Bounds and value domains *)

\* the number of interrupt-related items of the module (Register uses,
\* handle globals, use uses, a pre-existing function)
MaxItems == 3

IRQs == {1, 3, 7}

\* the cases of one select statement
MaxCases == 2

SelectIds == {1, 2}

Chans == {1, 2}

\* element types: Go's struct{}, int64 and [12]byte
ElemTypes == {"struct{}", "int64", "[12]byte"}

\* the cases a select is made of: direction, channel and element type
CaseSet ==
    { [dir |-> "RecvOnly", chan |-> 1, elem |-> "int64"],
      [dir |-> "RecvOnly", chan |-> 2, elem |-> "[12]byte"],
      [dir |-> "RecvOnly", chan |-> 1, elem |-> "struct{}"],
      [dir |-> "SendOnly", chan |-> 2, elem |-> "int64"],
      [dir |-> "SendOnly", chan |-> 1, elem |-> "[12]byte"],
      [dir |-> "SendOnly", chan |-> 2, elem |-> "struct{}"] }

NameGlobals == {"UART_IRQHandler", "TIMER_IRQHandler"}

SeqsOfLen(S, n) == [1..n -> S]

----------------------------------------------------------------------------
(* Small helpers standing for Go and LLVM primitives *)

Digits == <<"0", "1", "2", "3", "4", "5", "6", "7", "8", "9">>

RECURSIVE FormatNat(_)
FormatNat(n) ==
    IF n < 10 THEN Digits[n + 1]
    ELSE FormatNat(n \div 10) \o Digits[(n % 10) + 1]

\* strconv.FormatInt(n, 10)
FormatInt(n) == IF n < 0 THEN "-" \o FormatNat(-n) ELSE FormatNat(n)

\* a Go map read: the zero value when the key is absent
Lookup(names, num) == IF num \in DOMAIN names THEN names[num] ELSE ""

EmptyMap == [x \in {} |-> ""]

\* errorAt(value, msg)
Err(at, msg) == [at |-> at, msg |-> msg]

Ret == [op |-> "ret", callee |-> "", args |-> <<>>]
Call(callee, args) == [op |-> "call", callee |-> callee, args |-> args]

\* firstInst.OperandsCount(): the arguments and the callee
OperandsCount(inst) == Len(inst.args) + 1

fnType == "void()"

----------------------------------------------------------------------------
(* The input module *)

\* One use of runtime/interrupt.Register.  kind says which of the checks of
\* the loop the use fails, "ok" none: then bytes is the name global's
\* content and len the length operand.
RegisterUseSet ==
    { [kind |-> "ok", num |-> n, bytes |-> "UART_IRQHandler", len |-> 0, erased |-> FALSE] :
        n \in IRQs } \cup
    { [kind |-> "ok", num |-> n, bytes |-> b, len |-> Len(b), erased |-> FALSE] :
        n \in IRQs, b \in NameGlobals } \cup
    { [kind |-> k, num |-> 1, bytes |-> "UART_IRQHandler", len |-> 0, erased |-> FALSE] :
        k \in {"notCall", "nonConstNum", "notString", "nonConstName"} }

\* A use of a handle global: a ptrtoint constant expression, or anything else
\* (here a load).  replaced: the use's own uses were replaced by `value`.
PtrToIntUse == [kind |-> "ptrtoint", replaced |-> FALSE, value |-> 0]
LoadUse == [kind |-> "load", replaced |-> FALSE, value |-> 0]

\* One global of type runtime/interrupt.handle: the initializer
\* {{ctx, fn}, {num}}, the shape of the func pointer field and the uses.
Handle(n, c, f, s, u) ==
    [num |-> n, ctx |-> c, fn |-> f, shape |-> s, uses |-> u, erased |-> FALSE]

HandleSet ==
    { Handle(n, "nil", f, "func", <<PtrToIntUse>>) :
        n \in IRQs, f \in {"handlerA", "handlerB"} } \cup
    { Handle(1, "closure", "handlerA", "func", <<PtrToIntUse>>) } \cup
    { Handle(1, "nil", "handlerA", s, <<PtrToIntUse>>) :
        s \in {"lowered", "nonConst", "notGlobal", "badType", "badInner", "notFuncPtr"} } \cup
    { Handle(1, "nil", "handlerA", "func", <<PtrToIntUse, LoadUse>>) }

UseUseSet == { [kind |-> k, erased |-> FALSE] : k \in {"call", "notCall"} }

Function(sig, body) ==
    [sig |-> sig, body |-> body, unnamedAddr |-> FALSE, section |-> "",
     linkage |-> "external"]

\* Functions the module may already hold under a handler's name.
PreFunctionSet ==
    { [x \in {} |-> Function(fnType, <<>>)] } \cup
    { [x \in {n} |-> f] :
        n \in {"UART_IRQHandler", "runtime/interrupt.interruptHandler1"},
        f \in { Function(fnType, <<>>),
                Function(fnType, <<Call("userCode", <<>>), Ret>>),
                Function("other", <<>>) } }

NoBody == [defined |-> FALSE, cases |-> <<>>, blocks |-> <<>>,
           linkage |-> "external", unnamedAddr |-> FALSE]

----------------------------------------------------------------------------
(* LowerInterrupts *)

IInit ==
    /\ \E nh \in 0..MaxItems : \E nr \in 0..(MaxItems - nh) :
       \E nu \in 0..(MaxItems - nh - nr) :
          /\ handleGlobals \in SeqsOfLen(HandleSet, nh)
          /\ registerUses \in SeqsOfLen(RegisterUseSet, nr)
          /\ useUses \in SeqsOfLen(UseUseSet, nu)
          /\ functions \in { f \in PreFunctionSet :
                               nh + nr + nu + Cardinality(DOMAIN f) <= MaxItems }
    /\ dispatcherHasUses \in BOOLEAN
    /\ dispatcher = NoBody
    /\ handlerNames = EmptyMap
    /\ hasSoftwareVectoring = FALSE
    /\ softwareVector = EmptyMap
    /\ handlers = <<>>
    /\ errs = <<>>
    /\ pc = "register"
    /\ idx = 1
    /\ synthesized = <<>>

\* lines 32-54: the check a Register use fails, "" when none
RegisterCheck(call) ==
    CASE call.kind = "notCall" -> "expected a call to runtime/interrupt.Register?"
      [] call.kind = "nonConstNum" -> "non-constant interrupt number?"
      [] call.kind = "notString" -> "expected a string operand?"
      [] call.kind = "nonConstName" -> "non-constant interrupt name?"
      [] OTHER -> ""

\* line 57: string(getGlobalBytes(nameStrPtr)[:nameStrLen])
RegisteredName(call) == SubSeq(call.bytes, 1, call.len)

\* lines 31-63, one iteration
LowerRegisterCall ==
    /\ pc = "register"
    /\ idx <= Len(registerUses)
    /\ LET call == registerUses[idx]
           msg == RegisterCheck(call)
       IN IF msg # ""
          THEN /\ errs' = Append(errs, Err(<<"register", idx>>, msg))
               /\ UNCHANGED <<handlerNames, registerUses>>
          ELSE /\ handlerNames' = (call.num :> RegisteredName(call)) @@ handlerNames
               /\ registerUses' = [registerUses EXCEPT ![idx].erased = TRUE]
               /\ UNCHANGED errs
    /\ idx' = idx + 1
    /\ UNCHANGED <<handleGlobals, useUses, functions, dispatcherHasUses, dispatcher,
                   hasSoftwareVectoring, softwareVector, handlers, pc, synthesized>>
    /\ UNCHANGED cvars

\* lines 65-89
CollectHandlers ==
    /\ pc = "register"
    /\ idx > Len(registerUses)
    /\ hasSoftwareVectoring' = dispatcherHasUses
    /\ softwareVector' = EmptyMap
    /\ handlers' = [i \in 1..Len(handleGlobals) |-> i]
    /\ pc' = "handlers"
    /\ idx' = 1
    /\ UNCHANGED <<registerUses, handleGlobals, useUses, functions, dispatcherHasUses,
                   dispatcher, handlerNames, errs, synthesized>>
    /\ UNCHANGED cvars

\* lines 96-117: the handler's symbol name
PlaceholderName(num) == "runtime/interrupt.interruptHandler" \o FormatInt(num)

\* the placeholder taken whether or not the module is software vectored
ResolveName_AlwaysPlaceholder(names, softwareVectoring, num) ==
    LET name == Lookup(names, num)
    IN IF name = ""
       THEN [ok |-> TRUE, name |-> PlaceholderName(num), isSoftwareVectored |-> softwareVectoring]
       ELSE [ok |-> TRUE, name |-> name, isSoftwareVectored |-> FALSE]

ResolveName(names, softwareVectoring, num) ==
    LET name == Lookup(names, num)
    IN IF name = ""
       THEN IF softwareVectoring
            THEN [ok |-> TRUE, name |-> PlaceholderName(num), isSoftwareVectored |-> TRUE]
            ELSE [ok |-> FALSE, name |-> "", isSoftwareVectored |-> FALSE]
       ELSE [ok |-> TRUE, name |-> name, isSoftwareVectored |-> FALSE]

\* lines 119-150: the check the func value of a handle fails, msg "" when
\* none.  The three errors of the func-lowering unwrap are reported at the
\* inner global.
FuncValueCheck(g) ==
    IF g.shape = "nonConst"
    THEN [at |-> "handle", msg |-> "func value must be constant"]
    ELSE IF g.shape \in {"lowered", "notGlobal", "badType", "badInner"}
    THEN \* handlerFuncPtr is a ptrtoint constant expression
         IF g.shape = "notGlobal"
         THEN [at |-> "funcLowering",
               msg |-> "internal error: expected a global for func lowering"]
         ELSE IF g.shape = "badType"
         THEN [at |-> "funcLowering",
               msg |-> "internal error: func lowering global has unexpected type"]
         ELSE IF g.shape = "badInner"
         THEN [at |-> "funcLowering",
               msg |-> "internal error: func lowering global has unexpected func ptr type"]
         ELSE [at |-> "handle", msg |-> ""]
    ELSE IF g.shape = "notFuncPtr"
    THEN [at |-> "handle", msg |-> "internal error: unexpected LLVM types in func value"]
    ELSE [at |-> "handle", msg |-> ""]

\* the comparison without the called value
SameForwardingCall_AnyCallee(firstInst, handlerFuncPtr, num, handlerContext) ==
    /\ firstInst.op = "call"
    /\ OperandsCount(firstInst) = 4
    /\ firstInst.args[1] = num
    /\ firstInst.args[2] = handlerContext

\* line 167: the existing body starts with the call this handle would get
SameForwardingCall(firstInst, handlerFuncPtr, num, handlerContext) ==
    /\ firstInst.op = "call"
    /\ OperandsCount(firstInst) = 4
    /\ firstInst.callee = handlerFuncPtr
    /\ firstInst.args[1] = num
    /\ firstInst.args[2] = handlerContext

\* lines 154-180: what mod.NamedFunction(name) leads to
ExistingFunction(fns, name, handlerFuncPtr, num, handlerContext) ==
    IF name \notin DOMAIN fns THEN "add"
    ELSE IF fns[name].sig # fnType THEN "signature"
    ELSE IF fns[name].body # <<>>
    THEN IF SameForwardingCall(fns[name].body[1], handlerFuncPtr, num, handlerContext)
         THEN "identical"
         ELSE "redeclared"
    ELSE "declared"

\* lines 184-208: the wrapper function
Wrapper(old, name, handlerFuncPtr, num, handlerContext, isSoftwareVectored) ==
    [sig |-> fnType,
     body |-> <<Call(handlerFuncPtr, <<num, handlerContext, "nullptr">>), Ret>>,
     unnamedAddr |-> TRUE,
     section |-> ".text." \o name,
     linkage |-> IF isSoftwareVectored THEN "internal" ELSE old.linkage]

\* lines 214-220: every ptrtoint use is replaced by the interrupt number
RewriteUses(uses, num) ==
    [k \in DOMAIN uses |->
        IF uses[k].kind = "ptrtoint"
        THEN [uses[k] EXCEPT !.replaced = TRUE, !.value = num]
        ELSE uses[k]]

RECURSIVE UseErrors(_, _)
UseErrors(uses, h) ==
    IF uses = <<>> THEN <<>>
    ELSE (IF Head(uses).kind # "ptrtoint"
          THEN <<Err(<<"handle", h>>, "internal error: expected a ptrtoint")>>
          ELSE <<>>) \o UseErrors(Tail(uses), h)

\* line 225: erasing a global that still has a use leaves that use dangling;
\* a build of LLVM with assertions aborts there instead
EraseOutcomes(uses) ==
    IF \E k \in DOMAIN uses : uses[k].kind # "ptrtoint"
    THEN {"dangling", "abort"}
    ELSE {"erased"}

\* lines 93-226, one iteration
LowerHandle ==
    /\ pc = "handlers"
    /\ idx <= Len(handlers)
    /\ LET h == handlers[idx]
           global == handleGlobals[h]
           num == global.num
           res == ResolveName(handlerNames, hasSoftwareVectoring, num)
           name == res.name
           fv == FuncValueCheck(global)
           handlerFuncPtr == global.fn
           handlerContext == global.ctx
           existing == ExistingFunction(functions, name, handlerFuncPtr, num, handlerContext)
           Skip(es) ==
               /\ errs' = errs \o es
               /\ pc' = pc
               /\ idx' = idx + 1
               /\ UNCHANGED <<functions, softwareVector, handleGlobals, synthesized>>
       IN IF ~res.ok
          THEN Skip(<<Err(<<"handle", h>>,
                          "cannot find interrupt name for number " \o FormatInt(num))>>)
          ELSE IF fv.msg # ""
          THEN Skip(<<Err(<<fv.at, h>>, fv.msg)>>)
          ELSE IF existing = "signature"
          THEN Skip(<<Err(<<"handle", h>>, name \o " redeclared with a different signature")>>)
          ELSE IF existing = "identical"
          THEN Skip(<<>>)
          ELSE IF existing = "redeclared"
          THEN Skip(<<Err(<<"handle", h>>, name \o " redeclared in this program")>>)
          ELSE /\ functions' =
                    (name :> Wrapper(IF existing = "add" THEN Function(fnType, <<>>)
                                     ELSE functions[name],
                                     name, handlerFuncPtr, num, handlerContext,
                                     res.isSoftwareVectored)) @@ functions
               /\ softwareVector' = IF res.isSoftwareVectored
                                    THEN (num :> name) @@ softwareVector
                                    ELSE softwareVector
               /\ synthesized' = Append(synthesized, [handle |-> h, name |-> name])
               /\ errs' = errs \o UseErrors(global.uses, h)
               /\ \E outcome \in EraseOutcomes(global.uses) :
                     /\ handleGlobals' =
                          [handleGlobals EXCEPT
                              ![h].uses = RewriteUses(global.uses, num),
                              ![h].erased = (outcome # "abort")]
                     /\ pc' = IF outcome = "abort" THEN "aborted" ELSE pc
                     /\ idx' = IF outcome = "abort" THEN idx ELSE idx + 1
    /\ UNCHANGED <<registerUses, useUses, dispatcherHasUses, dispatcher, handlerNames,
                   hasSoftwareVectoring, handlers>>
    /\ UNCHANGED cvars

\* line 246: sort.Slice(ids, less), ascending
RECURSIVE InsertSorted(_, _)
InsertSorted(id, ids) ==
    IF ids = <<>> THEN <<id>>
    ELSE IF id < Head(ids) THEN <<id>> \o ids
    ELSE <<Head(ids)>> \o InsertSorted(id, Tail(ids))

\* the ids left in the order the map yielded them
SortIds_Unsorted(ids) == ids

RECURSIVE SortIds(_)
SortIds(ids) ==
    IF ids = <<>> THEN <<>> ELSE InsertSorted(Head(ids), SortIds(Tail(ids)))

\* lines 242-245: the keys of the map, in the order the map's range yields them
KeyOrders(m) ==
    { p \in [1..Cardinality(DOMAIN m) -> DOMAIN m] :
        \A i, j \in DOMAIN p : i # j => p[i] # p[j] }

BlockName(id) == "interrupt" \o FormatInt(id)

\* lines 249-275: the body of runtime.callInterruptHandler
DispatcherBody(ids, vector) ==
    [defined |-> TRUE,
     cases |-> [k \in DOMAIN ids |-> [value |-> ids[k], block |-> BlockName(ids[k])]],
     blocks |-> <<[name |-> "entry",
                   insts |-> <<[op |-> "switch", callee |-> "", args |-> <<"param0", "default">>]>>],
                  [name |-> "default", insts |-> <<Ret>>]>> \o
                [k \in DOMAIN ids |->
                    [name |-> BlockName(ids[k]),
                     insts |-> <<Call(vector[ids[k]], <<>>), Ret>>]],
     linkage |-> "internal",
     unnamedAddr |-> TRUE]

\* the dispatcher left without a body when the table is empty
BuildDispatcher_OnlyWithEntries ==
    /\ pc = "handlers"
    /\ idx > Len(handlers)
    /\ IF hasSoftwareVectoring /\ DOMAIN softwareVector # {}
       THEN \E order \in KeyOrders(softwareVector) :
               dispatcher' = DispatcherBody(SortIds(order), softwareVector)
       ELSE UNCHANGED dispatcher
    /\ pc' = "uses"
    /\ idx' = 1
    /\ UNCHANGED <<registerUses, handleGlobals, useUses, functions, dispatcherHasUses,
                   handlerNames, hasSoftwareVectoring, softwareVector, handlers, errs,
                   synthesized>>
    /\ UNCHANGED cvars

\* lines 240-276
BuildDispatcher ==
    /\ pc = "handlers"
    /\ idx > Len(handlers)
    /\ IF hasSoftwareVectoring
       THEN \E order \in KeyOrders(softwareVector) :
               dispatcher' = DispatcherBody(SortIds(order), softwareVector)
       ELSE UNCHANGED dispatcher
    /\ pc' = "uses"
    /\ idx' = 1
    /\ UNCHANGED <<registerUses, handleGlobals, useUses, functions, dispatcherHasUses,
                   handlerNames, hasSoftwareVectoring, softwareVector, handlers, errs,
                   synthesized>>
    /\ UNCHANGED cvars

\* lines 283-290, one iteration
RemoveUseCall ==
    /\ pc = "uses"
    /\ idx <= Len(useUses)
    /\ IF useUses[idx].kind # "call"
       THEN /\ errs' = Append(errs, Err(<<"use", idx>>,
                                       "internal error: expected call to runtime/interrupt.use"))
            /\ UNCHANGED useUses
       ELSE /\ useUses' = [useUses EXCEPT ![idx].erased = TRUE]
            /\ UNCHANGED errs
    /\ idx' = idx + 1
    /\ UNCHANGED <<registerUses, handleGlobals, functions, dispatcherHasUses, dispatcher,
                   handlerNames, hasSoftwareVectoring, softwareVector, handlers, pc,
                   synthesized>>
    /\ UNCHANGED cvars

\* line 292
Return ==
    /\ pc = "uses"
    /\ idx > Len(useUses)
    /\ pc' = "done"
    /\ UNCHANGED <<registerUses, handleGlobals, useUses, functions, dispatcherHasUses,
                   dispatcher, handlerNames, hasSoftwareVectoring, softwareVector,
                   handlers, errs, idx, synthesized>>
    /\ UNCHANGED cvars

Next ==
    \/ LowerRegisterCall
    \/ CollectHandlers
    \/ LowerHandle
    \/ BuildDispatcher
    \/ RemoveUseCall
    \/ Return

\* no module: the pass is not run
IIdle ==
    /\ handleGlobals = <<>>
    /\ registerUses = <<>>
    /\ useUses = <<>>
    /\ functions = [x \in {} |-> Function(fnType, <<>>)]
    /\ dispatcherHasUses = FALSE
    /\ dispatcher = NoBody
    /\ handlerNames = EmptyMap
    /\ hasSoftwareVectoring = FALSE
    /\ softwareVector = EmptyMap
    /\ handlers = <<>>
    /\ errs = <<>>
    /\ pc = "idle"
    /\ idx = 1
    /\ synthesized = <<>>

----------------------------------------------------------------------------
(* Channel lowering: IR values and instructions *)

\* An llvm.Value.  An alloca is named by the SSA instruction whose lowering
\* made it (site: the select, 0 for the other operations) and its number
\* among the allocas of that lowering (id); idx is the last index of a GEP
\* into it, cast the type a bitcast gave it.
Val(kind, site, id, i) == [kind |-> kind, site |-> site, id |-> id, idx |-> i, cast |-> ""]

Alloca(site, k) == Val("alloca", site, k, 0)
GEP(a, i) == [a EXCEPT !.kind = "gep", !.idx = i]
BitCast(v, ty) == [v EXCEPT !.cast = ty]
Undef == Val("undef", 0, 0, 0)
NullPtr == Val("null", 0, 0, 0)
NilValue == Val("nil", 0, 0, 0)            \* the zero llvm.Value
ConstInt(n) == Val("const", 0, n, 0)
ChanValue(c) == Val("chan", 0, c, 0)       \* getValue(frame, <a channel>)
LocalValue(i) == Val("local", 0, i, 0)     \* getValue(frame, <an SSA value>)
SelectResult(s) == Val("select.result", s, 0, 0)

\* One instruction given to the builder.  fn: a runtime function or the
\* name of an alloca; v: the value defined or the pointer worked on;
\* n and ty: an element count and type.
Inst(op, fn, v, args, n, align, ty) ==
    [op |-> op, fn |-> fn, v |-> v, args |-> args, n |-> n, align |-> align, ty |-> ty]

\* llvmutil.CreateEntryBlockAlloca
EntryBlockAlloca(a, name, ty, n, align) == Inst("alloca", name, a, <<>>, n, align, ty)

\* c.createTemporaryAlloca: the alloca and the start of its lifetime
TemporaryAlloca(a, name, ty, n, align) ==
    << EntryBlockAlloca(a, name, ty, n, align),
       Inst("lifetime.start", "", BitCast(a, "i8*"), <<>>, n, 0, ty) >>

\* c.emitLifetimeEnd
LifetimeEnd(a, ty, n) == Inst("lifetime.end", "", BitCast(a, "i8*"), <<>>, n, 0, ty)

\* c.createRuntimeCall
RuntimeCall(fn, args) == Inst("call", fn, Undef, args, 0, 0, "")

Store(value, ptr) == Inst("store", "", ptr, value, 0, 0, "")
Load(ptr) == Inst("load", "", ptr, <<>>, 0, 0, "")

\* c.targetData.TypeAllocSize and ABITypeAlignment of the element types
TypeAllocSize(ty) ==
    CASE ty = "struct{}" -> 0 [] ty = "int64" -> 8 [] ty = "[12]byte" -> 12

ABITypeAlignment(ty) ==
    CASE ty = "struct{}" -> 1 [] ty = "int64" -> 8 [] ty = "[12]byte" -> 1

\* llvm.ConstInt(c.intType, 0xffffffffffffffff, true): all bits set
AllOnes == -1

\* What a lowering call returns.  kind "const": a constant tuple with the
\* index given; "undef": llvm.Undef; "call": a runtime call's result;
\* "value", "tuple": a loaded or extracted value; "none": nothing.  ok is
\* the tuple's ok field: "undef" when the IR leaves it undefined, "runtime"
\* when the runtime call sets it, "" when there is none.
Result(kind, index, ok) == [kind |-> kind, index |-> index, ok |-> ok]

NoCall == [op |-> "", sel |-> 0, states |-> <<>>, blocking |-> FALSE, index |-> 0,
           ty |-> "", commaOk |-> FALSE]

NilMap == [nil |-> TRUE, entries |-> [x \in {} |-> Undef]]

\* a read of the Go map frame.selectRecvBuf
MapRead(table, s) ==
    IF ~table.nil /\ s \in DOMAIN table.entries THEN table.entries[s] ELSE NilValue

----------------------------------------------------------------------------
(* emitSelect *)

\* the loop body with the buffer sized by the send cases too
SelectCase_AnyDirection(acc, state, i, s) ==
    LET sized == [acc EXCEPT
                    !.size = IF TypeAllocSize(state.elem) > acc.size
                             THEN TypeAllocSize(state.elem) ELSE acc.size,
                    !.align = IF ABITypeAlignment(state.elem) > acc.align
                              THEN ABITypeAlignment(state.elem) ELSE acc.align]
    IN IF state.dir = "RecvOnly"
       THEN [sized EXCEPT
               !.hasReceives = TRUE,
               !.states = Append(acc.states, [ch |-> ChanValue(state.chan), ptr |-> NullPtr])]
       ELSE [sized EXCEPT
               !.insts = acc.insts \o
                         << EntryBlockAlloca(Alloca(s, acc.next), "select.send.value",
                                             state.elem, 1, 0),
                            Store(<<LocalValue(i)>>, Alloca(s, acc.next)) >>,
               !.next = acc.next + 1,
               !.states = Append(acc.states,
                                 [ch |-> ChanValue(state.chan),
                                  ptr |-> BitCast(Alloca(s, acc.next), "i8*")])]

\* lines 107-134, one iteration, of the lowering of select s.  acc holds
\* the loop's variables, the instructions given to the builder and the
\* number of the next alloca.
SelectCase(acc, state, i, s) ==
    IF state.dir = "RecvOnly"
    THEN [acc EXCEPT
            !.size = IF TypeAllocSize(state.elem) > acc.size
                     THEN TypeAllocSize(state.elem) ELSE acc.size,
            !.align = IF ABITypeAlignment(state.elem) > acc.align
                      THEN ABITypeAlignment(state.elem) ELSE acc.align,
            !.hasReceives = TRUE,
            !.states = Append(acc.states, [ch |-> ChanValue(state.chan), ptr |-> NullPtr])]
    ELSE [acc EXCEPT
            !.insts = acc.insts \o
                      << EntryBlockAlloca(Alloca(s, acc.next), "select.send.value",
                                          state.elem, 1, 0),
                         Store(<<LocalValue(i)>>, Alloca(s, acc.next)) >>,
            !.next = acc.next + 1,
            !.states = Append(acc.states,
                              [ch |-> ChanValue(state.chan),
                               ptr |-> BitCast(Alloca(s, acc.next), "i8*")])]

RECURSIVE SelectCases(_, _, _, _)
SelectCases(states, i, acc, s) ==
    IF i > Len(states) THEN acc
    ELSE SelectCases(states, i + 1, SelectCase(acc, states[i], i, s), s)

\* lines 137-146: the receive buffer
RecvBuf(acc, s) ==
    IF acc.hasReceives
    THEN [insts |-> TemporaryAlloca(Alloca(s, acc.next), "select.recvbuf.alloca", "i8",
                                    acc.size, acc.align),
          buf |-> GEP(Alloca(s, acc.next), 0),
          next |-> acc.next + 1]
    ELSE [insts |-> <<>>, buf |-> Undef, next |-> acc.next]

\* lines 149-163: the states slice
StatesSlice(selectStates, statesAlloca) ==
    TemporaryAlloca(statesAlloca, "select.states.alloca", "chanSelectState",
                    Len(selectStates), 0) \o
    [i \in DOMAIN selectStates |->
        Store(<<selectStates[i].ch, selectStates[i].ptr>>, GEP(statesAlloca, i - 1))]

\* the two runtime calls with the test of expr.Blocking inverted
SelectCall_Inverted(blocking, recvbuf, statesAlloca, n, chBlockAlloca) ==
    IF ~blocking
    THEN TemporaryAlloca(chBlockAlloca, "select.block.alloca", "channelBlockedList", n, 0) \o
         << RuntimeCall("chanSelect",
                        << recvbuf,
                           GEP(statesAlloca, 0), ConstInt(n), ConstInt(n),
                           GEP(chBlockAlloca, 0), ConstInt(n), ConstInt(n) >>),
            LifetimeEnd(chBlockAlloca, "channelBlockedList", n) >>
    ELSE << RuntimeCall("tryChanSelect",
                        << recvbuf,
                           GEP(statesAlloca, 0), ConstInt(n), ConstInt(n) >>) >>

\* lines 167-191: the runtime call, between the start and the end of the
\* blocked list's lifetime when the select blocks
SelectCall(blocking, recvbuf, statesAlloca, n, chBlockAlloca) ==
    IF blocking
    THEN TemporaryAlloca(chBlockAlloca, "select.block.alloca", "channelBlockedList", n, 0) \o
         << RuntimeCall("chanSelect",
                        << recvbuf,
                           GEP(statesAlloca, 0), ConstInt(n), ConstInt(n),
                           GEP(chBlockAlloca, 0), ConstInt(n), ConstInt(n) >>),
            LifetimeEnd(chBlockAlloca, "channelBlockedList", n) >>
    ELSE << RuntimeCall("tryChanSelect",
                        << recvbuf,
                           GEP(statesAlloca, 0), ConstInt(n), ConstInt(n) >>) >>

\* the side table made anew at every select
StoreRecvBuf_Remake(table, s, recvbuf) ==
    [nil |-> FALSE, entries |-> (s :> recvbuf)]

\* lines 201-204
StoreRecvBuf(table, s, recvbuf) ==
    LET t == IF table.nil THEN [nil |-> FALSE, entries |-> [x \in {} |-> Undef]] ELSE table
    IN [t EXCEPT !.entries = (s :> recvbuf) @@ t.entries]

\* the general case with the states buffer's lifetime left open
LowerCases_StatesNotEnded(s, acc, blocking) ==
    LET rb == RecvBuf(acc, s)
        n == Len(acc.states)
    IN [insts |-> acc.insts \o rb.insts \o StatesSlice(acc.states, Alloca(s, rb.next)) \o
                  SelectCall(blocking, rb.buf, Alloca(s, rb.next), n, Alloca(s, rb.next + 1)),
        ret |-> Result("call", 0, "runtime"),
        records |-> TRUE,
        recvbuf |-> rb.buf]

\* lines 102-206, for a select of at least one case
LowerCases(s, acc, blocking) ==
    LET rb == RecvBuf(acc, s)
        n == Len(acc.states)
    IN [insts |-> acc.insts \o rb.insts \o StatesSlice(acc.states, Alloca(s, rb.next)) \o
                  SelectCall(blocking, rb.buf, Alloca(s, rb.next), n, Alloca(s, rb.next + 1)) \o
                  << LifetimeEnd(Alloca(s, rb.next), "chanSelectState", n) >>,
        ret |-> Result("call", 0, "runtime"),
        records |-> TRUE,
        recvbuf |-> rb.buf]

\* lines 73-207: what emitSelect gives the builder, returns and records
LowerSelect(s, states, blocking) ==
    IF Len(states) = 0
    THEN IF blocking
         THEN [insts |-> <<RuntimeCall("deadlock", <<>>)>>, ret |-> Result("undef", 0, "undef"),
               records |-> FALSE, recvbuf |-> Undef]
         ELSE [insts |-> <<>>, ret |-> Result("const", AllOnes, "undef"),
               records |-> FALSE, recvbuf |-> Undef]
    ELSE LowerCases(s,
                    SelectCases(states, 1,
                                [size |-> 0, align |-> 0, hasReceives |-> FALSE,
                                 states |-> <<>>, insts |-> <<>>, next |-> 1], s),
                    blocking)

EmitSelect ==
    /\ cpc = "ready"
    /\ \E s \in SelectIds \ lowered : \E n \in 0..MaxCases :
       \E states \in [1..n -> CaseSet] : \E blocking \in BOOLEAN :
       \E r \in {LowerSelect(s, states, blocking)} :
          /\ emitted' = r.insts
          /\ ret' = r.ret
          /\ selectRecvBuf' = IF r.records THEN StoreRecvBuf(selectRecvBuf, s, r.recvbuf)
                              ELSE selectRecvBuf
          /\ recorded' = IF r.records THEN (s :> r.recvbuf) @@ recorded ELSE recorded
          /\ lowered' = lowered \cup {s}
          /\ lastCall' = [NoCall EXCEPT !.op = "emitSelect", !.sel = s,
                                        !.states = states, !.blocking = blocking]
    /\ UNCHANGED cpc
    /\ UNCHANGED ivars

----------------------------------------------------------------------------
(* getChanSelectResult *)

\* Line 232 reads the map without a test: a missing entry gives the zero
\* llvm.Value, and lines 234-235 hand it to the builder, which either
\* faults on the null handle or takes it.
BuilderOutcomes(v) == IF v.kind = "nil" THEN {"fault", "emitted"} ELSE {"emitted"}

\* lines 226-236
LoadReceived(table, s, ty) ==
    LET recvbuf == MapRead(table, s)
        ptr == BitCast(recvbuf, ty \o "*")
    IN << Inst("bitcast", "", ptr, <<recvbuf>>, 0, 0, ty \o "*"), Load(ptr) >>

\* lines 214-225
ExtractField(s, index, narrow) ==
    << Inst("extractvalue", "", SelectResult(s), <<>>, index, 0, "") >> \o
    (IF index = 0 /\ narrow
     THEN << Inst("sext", "", SelectResult(s), <<>>, 0, 0, "int") >>
     ELSE <<>>)

GetChanSelectResult ==
    /\ cpc = "ready"
    /\ \E s \in SelectIds : \E index \in 0..3 : \E ty \in ElemTypes : \E narrow \in BOOLEAN :
          /\ index < 2 => (s \in lowered /\ ty = "int64")
          /\ index >= 2 => ~narrow
          /\ lastCall' = [NoCall EXCEPT !.op = "getChanSelectResult", !.sel = s,
                                        !.index = index, !.ty = ty]
          /\ IF index < 2
             THEN /\ emitted' = ExtractField(s, index, narrow)
                  /\ ret' = Result("value", 0, "")
                  /\ UNCHANGED cpc
             ELSE \E outcome \in BuilderOutcomes(MapRead(selectRecvBuf, s)) :
                     IF outcome = "fault"
                     THEN /\ emitted' = <<>>
                          /\ ret' = Result("none", 0, "")
                          /\ cpc' = "fault"
                     ELSE /\ emitted' = LoadReceived(selectRecvBuf, s, ty)
                          /\ ret' = Result("value", 0, "")
                          /\ UNCHANGED cpc
    /\ UNCHANGED <<selectRecvBuf, lowered, recorded>>
    /\ UNCHANGED ivars

----------------------------------------------------------------------------
(* The simple channel operations *)

\* lines 14-19
EmitMakeChan ==
    /\ cpc = "ready"
    /\ \E ty \in ElemTypes :
          /\ emitted' = << RuntimeCall("chanMake", <<ConstInt(TypeAllocSize(ty)), LocalValue(0)>>) >>
          /\ lastCall' = [NoCall EXCEPT !.op = "emitMakeChan", !.ty = ty]
    /\ ret' = Result("call", 0, "")
    /\ UNCHANGED <<selectRecvBuf, lowered, recorded, cpc>>
    /\ UNCHANGED ivars

\* lines 23-39
ChanSend(ch, ty, valueAlloca) ==
    TemporaryAlloca(valueAlloca, "chan.value", ty, 1, 0) \o
    << Store(<<LocalValue(0)>>, valueAlloca),
       RuntimeCall("chanSend", <<ChanValue(ch), BitCast(valueAlloca, "i8*")>>),
       LifetimeEnd(valueAlloca, ty, 1) >>

EmitChanSend ==
    /\ cpc = "ready"
    /\ \E ch \in Chans : \E ty \in ElemTypes :
          /\ emitted' = ChanSend(ch, ty, Alloca(0, 1))
          /\ lastCall' = [NoCall EXCEPT !.op = "emitChanSend", !.sel = ch, !.ty = ty]
    /\ ret' = Result("none", 0, "")
    /\ UNCHANGED <<selectRecvBuf, lowered, recorded, cpc>>
    /\ UNCHANGED ivars

\* lines 43-63
ChanRecv(ch, ty, valueAlloca) ==
    TemporaryAlloca(valueAlloca, "chan.value", ty, 1, 0) \o
    << RuntimeCall("chanRecv", <<ChanValue(ch), BitCast(valueAlloca, "i8*")>>),
       Load(valueAlloca),
       LifetimeEnd(valueAlloca, ty, 1) >>

EmitChanRecv ==
    /\ cpc = "ready"
    /\ \E ch \in Chans : \E ty \in ElemTypes : \E commaOk \in BOOLEAN :
          /\ emitted' = ChanRecv(ch, ty, Alloca(0, 1))
          /\ lastCall' = [NoCall EXCEPT !.op = "emitChanRecv", !.sel = ch, !.ty = ty,
                                        !.commaOk = commaOk]
          /\ ret' = Result(IF commaOk THEN "tuple" ELSE "value", 0, IF commaOk THEN "runtime" ELSE "")
    /\ UNCHANGED <<selectRecvBuf, lowered, recorded, cpc>>
    /\ UNCHANGED ivars

\* lines 66-69
EmitChanClose ==
    /\ cpc = "ready"
    /\ \E ch \in Chans :
          /\ emitted' = << RuntimeCall("chanClose", <<ChanValue(ch)>>) >>
          /\ lastCall' = [NoCall EXCEPT !.op = "emitChanClose", !.sel = ch]
    /\ ret' = Result("none", 0, "")
    /\ UNCHANGED <<selectRecvBuf, lowered, recorded, cpc>>
    /\ UNCHANGED ivars

\* a new frame
CInit ==
    /\ selectRecvBuf = NilMap
    /\ emitted = <<>>
    /\ lastCall = NoCall
    /\ ret = Result("none", 0, "")
    /\ lowered = {}
    /\ recorded = [x \in {} |-> Undef]
    /\ cpc = "ready"

\* no frame: nothing is compiled
CIdle ==
    /\ selectRecvBuf = NilMap
    /\ emitted = <<>>
    /\ lastCall = NoCall
    /\ ret = Result("none", 0, "")
    /\ lowered = {}
    /\ recorded = [x \in {} |-> Undef]
    /\ cpc = "idle"

ChanNext ==
    \/ EmitSelect
    \/ GetChanSelectResult
    \/ EmitMakeChan
    \/ EmitChanSend
    \/ EmitChanRecv
    \/ EmitChanClose

----------------------------------------------------------------------------
(* The specifications *)

Init == IInit /\ CIdle

SpecInterrupts == Init /\ [][Next]_vars

ChanInit == IIdle /\ CInit

SpecChan == ChanInit /\ [][ChanNext]_vars

----------------------------------------------------------------------------
(* Properties of LowerInterrupts *)

\* the handle globals the second loop has gone through
HandlesDone ==
    IF pc \in {"register", "idle"} THEN 0
    ELSE IF pc \in {"handlers", "aborted"} THEN idx - 1
    ELSE Len(handleGlobals)

ErrorsAt(h) ==
    { k \in DOMAIN errs : errs[k].at \in {<<"handle", h>>, <<"funcLowering", h>>} }

NamesSynthesizedFor(h) ==
    { synthesized[k].name : k \in { k \in DOMAIN synthesized : synthesized[k].handle = h } }

WasSynthesized(h) == NamesSynthesizedFor(h) # {}

\* the handle's func value passes the checks of lines 119-150
ValidFuncValue(g) == g.shape \in {"func", "lowered"}

RedeclarationErrorAt(h) ==
    \E k \in ErrorsAt(h) : \E nm \in DOMAIN functions :
        errs[k].msg = nm \o " redeclared in this program"

\* C1: of two handle globals with the same interrupt number, the first of
\* which got its wrapper, the second gets none; when context and handler
\* function are the same too, the second raises no error, and when the
\* handler function differs it raises the redeclaration error.  So one
\* wrapper is synthesized under the name, the first handle's.
C1_DuplicateHandles ==
    \A i, j \in 1..HandlesDone :
        LET a == handleGlobals[i]
            b == handleGlobals[j]
        IN (/\ i < j
            /\ a.num = b.num
            /\ ValidFuncValue(a) /\ ValidFuncValue(b)
            /\ WasSynthesized(i))
           => /\ ~WasSynthesized(j)
              /\ \A nm \in NamesSynthesizedFor(i) :
                    /\ Cardinality({k \in DOMAIN synthesized : synthesized[k].name = nm}) = 1
                    /\ functions[nm].body[1] = Call(a.fn, <<a.num, a.ctx, "nullptr">>)
              /\ (a.ctx = b.ctx /\ a.fn = b.fn) => ErrorsAt(j) = {}
              /\ (a.fn # b.fn) => RedeclarationErrorAt(j)

C1_Witness ==
    /\ pc = "done"
    /\ \E i, j, k \in 1..Len(handleGlobals) :
          /\ i < j /\ i < k
          /\ handleGlobals[i].num = handleGlobals[j].num
          /\ handleGlobals[i].num = handleGlobals[k].num
          /\ handleGlobals[i].ctx = handleGlobals[j].ctx
          /\ handleGlobals[i].fn = handleGlobals[j].fn
          /\ handleGlobals[i].fn # handleGlobals[k].fn
          /\ ValidFuncValue(handleGlobals[i])
          /\ ValidFuncValue(handleGlobals[j])
          /\ ValidFuncValue(handleGlobals[k])
          /\ WasSynthesized(i)
          /\ ErrorsAt(j) = {}
          /\ RedeclarationErrorAt(k)

\* C2: after a run of the pass the module holds no handle global, no call
\* of runtime/interrupt.Register and no call of runtime/interrupt.use.
\* Stated for the runs that return no error, where it has to hold in any
\* reading.
C2_NothingLeft ==
    (pc = "done" /\ errs = <<>>)
    => /\ \A h \in DOMAIN handleGlobals : handleGlobals[h].erased
       /\ \A r \in DOMAIN registerUses :
             registerUses[r].kind # "notCall" => registerUses[r].erased
       /\ \A u \in DOMAIN useUses :
             useUses[u].kind = "call" => useUses[u].erased

BlockOf(d, name) ==
    { d.blocks[k].insts : k \in { k \in DOMAIN d.blocks : d.blocks[k].name = name } }

\* C3: with software vectoring the dispatcher's switch has one case per
\* number of the software-vector table, in ascending order of the numbers;
\* the block of a case calls the wrapper recorded for its number, which
\* forwards to a handle of that number, and returns; the default block only
\* returns.
C3_DispatcherSwitch ==
    (pc \in {"uses", "done"} /\ hasSoftwareVectoring)
    => /\ dispatcher.defined
       /\ Len(dispatcher.cases) = Cardinality(DOMAIN softwareVector)
       /\ { dispatcher.cases[k].value : k \in DOMAIN dispatcher.cases } = DOMAIN softwareVector
       /\ \A k \in DOMAIN dispatcher.cases :
             /\ k > 1 => dispatcher.cases[k - 1].value < dispatcher.cases[k].value
             /\ LET id == dispatcher.cases[k].value
                IN /\ BlockOf(dispatcher, dispatcher.cases[k].block)
                        = { <<Call(softwareVector[id], <<>>), Ret>> }
                   /\ \E e \in DOMAIN synthesized :
                         /\ synthesized[e].name = softwareVector[id]
                         /\ handleGlobals[synthesized[e].handle].num = id
       /\ BlockOf(dispatcher, "default") = { <<Ret>> }

C3_Witness ==
    /\ pc = "done"
    /\ hasSoftwareVectoring
    /\ [k \in DOMAIN handleGlobals |-> handleGlobals[k].num] = <<3, 7, 1>>
    /\ [k \in DOMAIN dispatcher.cases |-> dispatcher.cases[k].value] = <<1, 3, 7>>

ExpectedPlaceholderDigits == (1 :> "1") @@ (3 :> "3") @@ (7 :> "7")

ExpectedPlaceholder ==
    (1 :> "runtime/interrupt.interruptHandler1") @@
    (3 :> "runtime/interrupt.interruptHandler3") @@
    (7 :> "runtime/interrupt.interruptHandler7")

\* C5: the name of a processed handle is the one the name table holds for
\* its number or, when the table holds none and the module is software
\* vectored, the placeholder made from the number: a wrapper synthesized
\* for the handle has that name, and a handle that raised no error has its
\* forwarding call under that name.  With no name and no software vectoring
\* the handle raises the error and gets no wrapper.
C5_NameResolved ==
    \A h \in 1..HandlesDone :
        LET g == handleGlobals[h]
            registered == IF g.num \in DOMAIN handlerNames THEN handlerNames[g.num] ELSE ""
            Resolved(nm) ==
                /\ NamesSynthesizedFor(h) \subseteq {nm}
                /\ ErrorsAt(h) = {} =>
                      /\ nm \in DOMAIN functions
                      /\ functions[nm].body # <<>>
                      /\ functions[nm].body[1] = Call(g.fn, <<g.num, g.ctx, "nullptr">>)
        IN IF registered # "" THEN Resolved(registered)
           ELSE IF hasSoftwareVectoring THEN Resolved(ExpectedPlaceholder[g.num])
           ELSE /\ ~WasSynthesized(h)
                /\ \E k \in ErrorsAt(h) :
                      errs[k].msg = "cannot find interrupt name for number "
                                        \o ExpectedPlaceholderDigits[g.num]

C5_Witness ==
    /\ pc = "done"
    /\ \E a, b, c \in DOMAIN handleGlobals :
          /\ handleGlobals[a].num \in DOMAIN handlerNames
          /\ handlerNames[handleGlobals[a].num] = "TIMER_IRQHandler"
          /\ NamesSynthesizedFor(a) = {"TIMER_IRQHandler"}
          /\ handleGlobals[b].num \notin DOMAIN handlerNames
          /\ ErrorsAt(b) = {}
    /\ hasSoftwareVectoring

\* C6: an item that fails a check is skipped: a handle global that raised an
\* error got no wrapper, no entry of the software-vector table, kept its
\* uses and was not erased; a Register use or a use of runtime/interrupt.use
\* that raised an error was not erased; and errors are returned exactly
\* when some item raised one.
C6_ErrorMeansSkipped ==
    /\ \A h \in 1..HandlesDone :
          ErrorsAt(h) # {} =>
              /\ ~WasSynthesized(h)
              /\ ~handleGlobals[h].erased
              /\ \A u \in DOMAIN handleGlobals[h].uses : ~handleGlobals[h].uses[u].replaced
    /\ \A k \in DOMAIN errs :
          /\ errs[k].at[1] = "register" => ~registerUses[errs[k].at[2]].erased
          /\ errs[k].at[1] = "use" => ~useUses[errs[k].at[2]].erased

----------------------------------------------------------------------------
(* Properties of the channel lowering *)

CallsIn(insts) == { k \in DOMAIN insts : insts[k].op = "call" }

HasEntry(table, s) == ~table.nil /\ s \in DOMAIN table.entries

\* the values an ok field can take when the program runs
PossibleOk(r) ==
    CASE r.ok = "false" -> {FALSE}
      [] r.ok = "true" -> {TRUE}
      [] OTHER -> BOOLEAN

\* C4: a select of no case that does not block returns the tuple with index
\* -1 and ok false, gives the builder no runtime call and records nothing
\* in the side table.
C4_EmptySelect ==
    (lastCall.op = "emitSelect" /\ lastCall.states = <<>> /\ ~lastCall.blocking)
    => /\ ret.kind = "const"
       /\ ret.index = -1
       /\ PossibleOk(ret) = {FALSE}
       /\ CallsIn(emitted) = {}
       /\ ~HasEntry(selectRecvBuf, lastCall.sel)

\* C7: the side table holds for every select lowered with cases the receive
\* buffer recorded at its lowering, whatever selects were lowered and
\* results extracted since; and an extraction of index 2 or more loads
\* through that buffer, cast to a pointer to the type asked for.
C7_RecvBufKept ==
    /\ \A s \in DOMAIN recorded :
          /\ HasEntry(selectRecvBuf, s)
          /\ selectRecvBuf.entries[s] = recorded[s]
    /\ (/\ lastCall.op = "getChanSelectResult"
        /\ lastCall.index >= 2
        /\ lastCall.sel \in DOMAIN recorded)
       => /\ \E k \in DOMAIN emitted : emitted[k].op = "load"
          /\ \A k \in DOMAIN emitted :
                emitted[k].op = "load"
                => emitted[k].v = [recorded[lastCall.sel] EXCEPT !.cast = lastCall.ty \o "*"]

C7_Witness ==
    /\ DOMAIN recorded = SelectIds
    /\ recorded[1].kind = "gep"
    /\ recorded[2].kind = "gep"
    /\ recorded[1] # recorded[2]
    /\ lastCall.op = "getChanSelectResult"
    /\ lastCall.index = 3
    /\ \E k \in DOMAIN emitted : emitted[k].op = "load"

\* C8: an extraction of index 2 or more of a select the side table holds no
\* entry for fails, and gives the builder no load.
C8_MissingEntryFails ==
    (/\ lastCall.op = "getChanSelectResult"
     /\ lastCall.index >= 2
     /\ ~HasEntry(selectRecvBuf, lastCall.sel))
    => /\ cpc = "fault"
       /\ \A k \in DOMAIN emitted : emitted[k].op # "load"

BaseAlloca(v) == [v EXCEPT !.kind = "alloca", !.idx = 0, !.cast = ""]

AllocasOf(insts, a) == { k \in DOMAIN insts : insts[k].op = "alloca" /\ insts[k].v = a }

\* v points at the first element of a buffer of n elements of type ty
\* allocated before instruction k
FirstOfBuffer(insts, k, v, ty, n) ==
    /\ v.kind = "gep" /\ v.idx = 0
    /\ \E j \in AllocasOf(insts, BaseAlloca(v)) :
          j < k /\ insts[j].ty = ty /\ insts[j].n = n

\* C9: a select of at least one case gives the builder one runtime call,
\* chanSelect when it blocks and tryChanSelect otherwise.  The states buffer
\* passed holds the cases' entries in case order (the channel, and the send
\* payload's address or null), with length and capacity the case count;
\* the blocking call alone gets, besides, a blocked-list buffer of one slot
\* per case with that length and capacity.
C9_SelectCall ==
    (lastCall.op = "emitSelect" /\ Len(lastCall.states) >= 1)
    => LET n == Len(lastCall.states)
       IN /\ Cardinality(CallsIn(emitted)) = 1
          /\ \A k \in CallsIn(emitted) :
                LET c == emitted[k]
                    statesBuf == BaseAlloca(c.args[2])
                    stores == { j \in DOMAIN emitted :
                                  /\ emitted[j].op = "store"
                                  /\ BaseAlloca(emitted[j].v) = statesBuf }
                IN /\ c.fn = IF lastCall.blocking THEN "chanSelect" ELSE "tryChanSelect"
                   /\ Len(c.args) = IF lastCall.blocking THEN 7 ELSE 4
                   /\ FirstOfBuffer(emitted, k, c.args[2], "chanSelectState", n)
                   /\ c.args[3] = ConstInt(n) /\ c.args[4] = ConstInt(n)
                   /\ Cardinality(stores) = n
                   /\ \A i \in 1..n :
                         \E j \in stores :
                            /\ j < k
                            /\ emitted[j].v.idx = i - 1
                            /\ emitted[j].args[1] = ChanValue(lastCall.states[i].chan)
                            /\ IF lastCall.states[i].dir = "RecvOnly"
                               THEN emitted[j].args[2] = NullPtr
                               ELSE \E p \in DOMAIN emitted :
                                       /\ p < j
                                       /\ emitted[p].op = "store"
                                       /\ emitted[p].args = <<LocalValue(i)>>
                                       /\ emitted[j].args[2] = BitCast(emitted[p].v, "i8*")
                   /\ lastCall.blocking =>
                         /\ FirstOfBuffer(emitted, k, c.args[5], "channelBlockedList", n)
                         /\ BaseAlloca(c.args[5]) # statesBuf
                         /\ c.args[6] = ConstInt(n) /\ c.args[7] = ConstInt(n)

C9_Witness ==
    /\ lastCall.op = "emitSelect"
    /\ lastCall.blocking
    /\ Len(lastCall.states) = 2
    /\ lastCall.states[1].dir = "SendOnly"
    /\ lastCall.states[2].dir = "RecvOnly"
    /\ \E k \in CallsIn(emitted) : emitted[k].fn = "chanSelect"
    /\ 1 \in lowered /\ 2 \in lowered

SetMax(S) == CHOOSE x \in S : \A y \in S : y <= x

\* C10: the receive buffer is allocated exactly when the select has a
\* receive case: then once, with the largest allocated size and the largest
\* ABI alignment of the receive cases' element types, and its address is
\* what the runtime call gets; with no receive case no buffer is allocated
\* and the call gets the undefined pointer.
C10_RecvBuf ==
    (lastCall.op = "emitSelect" /\ Len(lastCall.states) >= 1)
    => LET recvs == { i \in DOMAIN lastCall.states : lastCall.states[i].dir = "RecvOnly" }
           bufs == { k \in DOMAIN emitted :
                       emitted[k].op = "alloca" /\ emitted[k].fn = "select.recvbuf.alloca" }
       IN /\ CallsIn(emitted) # {}
          /\ IF recvs # {}
             THEN /\ Cardinality(bufs) = 1
                  /\ \A k \in bufs :
                        /\ emitted[k].n =
                              SetMax({ TypeAllocSize(lastCall.states[i].elem) : i \in recvs })
                        /\ emitted[k].align =
                              SetMax({ ABITypeAlignment(lastCall.states[i].elem) : i \in recvs })
                        /\ \A c \in CallsIn(emitted) :
                              /\ k < c
                              /\ emitted[c].args[1] = GEP(emitted[k].v, 0)
             ELSE /\ bufs = {}
                  /\ \A c \in CallsIn(emitted) : emitted[c].args[1] = Undef

C10_Witness ==
    /\ lastCall.op = "emitSelect"
    /\ Len(lastCall.states) = 2
    /\ lastCall.states[1].dir = "RecvOnly" /\ lastCall.states[1].elem = "struct{}"
    /\ lastCall.states[2].dir = "SendOnly" /\ lastCall.states[2].elem = "[12]byte"
    /\ \E k \in DOMAIN emitted :
          /\ emitted[k].fn = "select.recvbuf.alloca"
          /\ emitted[k].n = 0
          /\ emitted[k].align = 1

\* the instructions that end the lifetime of the buffer a
EndsOf(insts, a) ==
    { k \in DOMAIN insts : insts[k].op = "lifetime.end" /\ BaseAlloca(insts[k].v) = a }

\* the buffer allocated by instruction k has its lifetime ended, whole, after
\* every runtime call and after every load from it
EndedAfterUse(insts, k) ==
    \E e \in EndsOf(insts, insts[k].v) :
        /\ e > k
        /\ insts[e].n = insts[k].n /\ insts[e].ty = insts[k].ty
        /\ \A c \in CallsIn(insts) : c < e
        /\ \A l \in DOMAIN insts :
              (insts[l].op = "load" /\ BaseAlloca(insts[l].v) = insts[k].v) => l < e

BufferLowerings == {"emitChanSend", "emitChanRecv", "emitSelect"}

\* C11 as stated: every stack buffer a channel lowering allocates, the
\* receive buffer of a select excepted, has its lifetime ended after the
\* runtime call and after the loads from it.
C11_AllBuffersEnded ==
    lastCall.op \in BufferLowerings
    => \A k \in DOMAIN emitted :
          (emitted[k].op = "alloca" /\ emitted[k].fn # "select.recvbuf.alloca")
          => EndedAfterUse(emitted, k)

\* C11 amended: the value buffer of a send and of a receive, and the states
\* buffer and the blocked-list buffer of a select, have their lifetime ended
\* once, after the runtime call and after the loads from them; the receive
\* buffer of a select and the send payload buffers of its cases get no
\* lifetime end.
C11_LifetimeEnds ==
    lastCall.op \in BufferLowerings
    => \A k \in DOMAIN emitted :
          emitted[k].op = "alloca"
          => IF emitted[k].fn \in {"select.recvbuf.alloca", "select.send.value"}
             THEN EndsOf(emitted, emitted[k].v) = {}
             ELSE /\ EndedAfterUse(emitted, k)
                  /\ Cardinality(EndsOf(emitted, emitted[k].v)) = 1

C11_Witness ==
    /\ lastCall.op = "emitSelect"
    /\ lastCall.blocking
    /\ \E k \in DOMAIN emitted :
          /\ emitted[k].op = "alloca" /\ emitted[k].fn = "select.send.value"
          /\ EndsOf(emitted, emitted[k].v) = {}
    /\ \E k \in DOMAIN emitted :
          /\ emitted[k].op = "alloca" /\ emitted[k].fn = "select.recvbuf.alloca"
    /\ \E k \in DOMAIN emitted :
          /\ emitted[k].op = "alloca" /\ emitted[k].fn = "select.states.alloca"
          /\ EndedAfterUse(emitted, k)
    /\ \E k \in DOMAIN emitted :
          /\ emitted[k].op = "alloca" /\ emitted[k].fn = "select.block.alloca"
          /\ EndedAfterUse(emitted, k)

\* the pass is past the dispatcher synthesis of lines 240-276
DispatcherStepDone == pc \in {"uses", "done"}

\* C12 as stated: the dispatcher has a body only if the software-vector
\* table holds an entry; with an empty table it is given none.
C12_BodyOnlyWithEntries ==
    /\ dispatcher.defined => DOMAIN softwareVector # {}
    /\ (DispatcherStepDone /\ DOMAIN softwareVector = {}) => ~dispatcher.defined

\* C12 amended: the dispatcher is given its body exactly when
\* runtime.callInterruptHandler has uses, whatever the software-vector table
\* holds; with an empty table the body is the entry block with a switch of
\* no case and the default block that returns.
C12_BodyIffSoftwareVectoring ==
    /\ ~DispatcherStepDone => ~dispatcher.defined
    /\ DispatcherStepDone =>
          /\ dispatcher.defined = dispatcherHasUses
          /\ (dispatcher.defined /\ DOMAIN softwareVector = {}) =>
                /\ dispatcher.cases = <<>>
                /\ [k \in DOMAIN dispatcher.blocks |-> dispatcher.blocks[k].name]
                      = <<"entry", "default">>
                /\ BlockOf(dispatcher, "default") = { <<Ret>> }

C12_Witness ==
    /\ pc = "done"
    /\ dispatcherHasUses
    /\ handleGlobals # <<>>
    /\ DOMAIN softwareVector = {}
    /\ dispatcher.defined
    /\ dispatcher.cases = <<>>

\* C13: a step of the handler loop that records an error for a handle
\* global leaves the module as it was with respect to that global: no
\* function is created or given a body, the software-vector table gets no
\* entry, no use of the global is rewritten and the global is not erased.
C13_ErrorLeavesDescriptor ==
    [][ (pc = "handlers" /\ Len(errs') > Len(errs))
        => /\ functions' = functions
           /\ softwareVector' = softwareVector
           /\ handleGlobals' = handleGlobals
           /\ synthesized' = synthesized ]_vars

====
